---- MODULE Spec2Model ----
(***************************************************************************)
(* get_tag.py: resolve the latest version of an artifact from one upstream *)
(* provider and print `tag=<version>` when that version is not among the   *)
(* tags already published for a container repository.                     *)
(*                                                                         *)
(* The specifications share the variables below.                           *)
(*   Spec      one run of main(): parse_args, get_docker_tags, the if/elif *)
(*             chain of providers, _urlopen with its retries, the final    *)
(*             membership test and print.                                  *)
(*   FairSpec  Spec, with every step that can be taken taken in the end.   *)
(*   SpecList  the list-building providers applied as pure functions to an *)
(*             upstream payload (get_gh_commits, get_gh_tags,              *)
(*             get_gh_releases_1, get_gh_deployments, get_pip_versions_2). *)
(***************************************************************************)
EXTENDS Integers, Sequences, FiniteSets, TLC

VARIABLES
    cli,        \* sys.argv: selector -> value given on the command line, or None
    env,        \* os.environ: selector -> value of its TAG_* variable, or None
    docker_tag, \* the positional argument docker_tag, None when left out
    args,       \* the Namespace parse_args() returns
    pc,         \* position of the run
    invoked,    \* the selector whose branch of the if/elif chain was taken
    url,        \* the URL the current _urlopen call fetches
    retries,    \* __retries of the innermost _urlopen frame
    response,   \* outcome of the latest urllib.request.urlopen(url)
    trace,      \* history: requests issued, sleeps taken, returns, raises
    stderr,     \* what _urlopen printed to sys.stderr
    tags,       \* main's local `tags`
    tag,        \* main's local `tag`
    stdout,     \* what main printed to sys.stdout
    err,        \* the exception that ended the run, "" if none
    payload,    \* SpecList: the decoded upstream JSON the provider is given
    fn,         \* SpecList: the provider last applied, "" before any
    out,        \* SpecList: the list the provider returned
    latest      \* SpecList: list[-1] of that list

vars == <<cli, env, docker_tag, args, pc, invoked, url, retries, response,
          trace, stderr, tags, tag, stdout, err, payload, fn, out, latest>>

runVars == <<cli, env, docker_tag, args, pc, invoked, url, retries, response,
             trace, stderr, tags, tag, stdout, err>>

listVars == <<payload, fn, out, latest>>

-----------------------------------------------------------------------------
(* Bounds of the model *)

\* how many (source, selector) pairs a run is given, a source being the
\* command line or the environment
MaxGiven == 2
\* longest upstream list of SpecList
MaxEntries == 3
\* most files over all the releases of one package-index payload
MaxFiles == 3

-----------------------------------------------------------------------------
(* Module constants *)

\* one retry more than the program allows
_RETRIES_raised == 3 + 1

_RETRIES == 3

\* Python's None
None == "<None>"

\* the keys of _CR_COICES, with "annually" added at line 27
_CR_COICES ==
    [ c \in {"hourly", "daily", "weekly", "monthly", "yearly", "annually"} |->
        CASE c = "hourly"   -> "%Y-%m-%dT%H"
          [] c = "daily"    -> "%Y-%m-%d"
          [] c = "weekly"   -> "%Y-W%V"
          [] c = "monthly"  -> "%Y-%m"
          [] c = "yearly"   -> "%Y"
          [] c = "annually" -> "%Y" ]

\* the optional arguments of the mutually exclusive group, in the order of
\* main's if/elif chain
Chain == <<"pip", "npm", "go", "gh_commit", "gh_tag", "gh_release",
           "gh_deployment", "gl_commit", "gl_tag", "cr">>

Selectors == { Chain[i] : i \in 1..Len(Chain) }

-----------------------------------------------------------------------------
(* Upstream JSON *)

\* One element of an upstream list.  id stands for the field the provider
\* reads ("sha", "name", "tag_name", "id", or the key of "releases").
Entry(id, draft, prerelease, files) ==
    [id |-> id, draft |-> draft, prerelease |-> prerelease, files |-> files]

E(id) == Entry(id, FALSE, FALSE, <<>>)

File(yanked, time) == [yanked |-> yanked, upload_time |-> time]

\* A response body: wellformed is FALSE when json.loads or a subscript of
\* the provider raises on it.
Body(entries) == [wellformed |-> TRUE, entries |-> entries]
Malformed == [wellformed |-> FALSE, entries |-> <<>>]

-----------------------------------------------------------------------------
(* Providers as functions of the decoded upstream JSON *)

\* the upstream order kept as it came
not_reversed(s) == s

\* reversed(seq)
reversed(s) == [ i \in 1..Len(s) |-> s[Len(s) - i + 1] ]

\* [result[field] for result in results]
Ids(results) == [ i \in 1..Len(results) |-> results[i].id ]

\* What a provider hands back: the list, or the exception it raised.
Returned(list) == [err |-> "", list |-> list]
Raised(exc) == [err |-> exc, list |-> <<>>]

get_gh_commits(results) == Returned(Ids(reversed(results)))

get_gh_tags(results) == Returned(Ids(reversed(results)))

\* the condition of the comprehension of get_gh_releases_1
is_release(result) == ~result.draft /\ ~result.prerelease

get_gh_releases_1(results) ==
    Returned(Ids(SelectSeq(reversed(results), is_release)))

get_gh_deployments(results) == Returned(Ids(reversed(results)))

get_gl_commits(results) == Returned(Ids(reversed(results)))

get_gl_tags(results) == Returned(Ids(reversed(results)))

\* the filter without its test of "yanked"
has_files(release) == release.files # <<>>

\* the lambda given to filter() in get_pip_versions_2: an empty file list is
\* falsy, otherwise only the first file's "yanked" is read
not_yanked(release) == release.files # <<>> /\ ~release.files[1].yanked

\* the key of sorted(): releases[release][0]["upload_time_iso_8601"].
\* Timestamps of one format compare as text the way they compare as times;
\* they are numbered here.  Subscript 0 of an empty list raises IndexError.
has_key(release) == release.files # <<>>
upload_time(release) == release.files[1].upload_time

\* list.insert for a stable ascending sort: after every element whose key
\* is not greater
RECURSIVE insort(_, _)
insort(s, x) ==
    IF s = <<>> THEN <<x>>
    ELSE IF upload_time(s[Len(s)]) <= upload_time(x) THEN Append(s, x)
    ELSE Append(insort(SubSeq(s, 1, Len(s) - 1), x), s[Len(s)])

RECURSIVE stable_sort(_)
stable_sort(s) ==
    IF s = <<>> THEN <<>>
    ELSE insort(stable_sort(SubSeq(s, 1, Len(s) - 1)), s[Len(s)])

\* sorted(versions, key=...)
sorted(versions) ==
    IF \E i \in 1..Len(versions) : ~has_key(versions[i])
    THEN Raised("IndexError")
    ELSE Returned(Ids(stable_sort(versions)))

get_pip_versions_2(releases) == sorted(SelectSeq(releases, not_yanked))

\* list[-1]
Last(r) ==
    IF r.err # "" THEN [err |-> r.err, id |-> ""]
    ELSE IF r.list = <<>> THEN [err |-> "IndexError", id |-> ""]
    ELSE [err |-> "", id |-> r.list[Len(r.list)]]

-----------------------------------------------------------------------------
(* The inputs of one run *)

\* values a selector is given on the command line: "" is `--pip ""`; a
\* project of the alternate forge is a path or a numeric id; --cr takes any
\* word, argparse checks it against the choices
CliValues(s) ==
    CASE s = "cr" -> {"", "daily", "fortnightly"}
      [] s = "pip" -> {"", "owner/name"}
      [] s \in {"gl_commit", "gl_tag"} -> {"group/project", "42"}
      [] OTHER -> {"owner/name"}

\* values of the selector's TAG_* environment variable
EnvValues(s) ==
    CASE s = "cr" -> {"daily", "fortnightly"}
      [] s \in {"gl_commit", "gl_tag"} -> {"group/project"}
      [] OTHER -> {"owner/env"}

Sources == {"cli", "env"} \X Selectors

ValuesOf(g) == IF g[1] = "cli" THEN CliValues(g[2]) ELSE EnvValues(g[2])

\* the ways to give each source of G one of its values
RECURSIVE Picks(_)
Picks(G) ==
    IF G = {} THEN { [ g \in {} |-> "" ] }
    ELSE LET g == CHOOSE x \in G : TRUE
         IN  { [ x \in G |-> IF x = g THEN v ELSE p[x] ] :
                 p \in Picks(G \ {g}), v \in ValuesOf(g) }

\* the subsets of S of at most k elements
RECURSIVE Subsets(_, _)
Subsets(S, k) ==
    IF k = 0 THEN {{}}
    ELSE LET P == Subsets(S, k - 1)
         IN  P \cup { p \cup {x} : p \in P, x \in S }

\* str.isdigit() on the project reference
isdigit(repository) == repository = "42"

\* a value that `if args.x:` takes as true
Truthy(v) == v # None /\ v # ""

-----------------------------------------------------------------------------
(* URLs and what the upstreams answer *)

DockerUrl == "https://hub.docker.com/v2/repositories/{repository}/tags"
GlProjectUrl == "{base}/api/v4/projects/{repository}"

\* the URL the provider wired to each selector fetches; cr fetches none
UrlOf ==
    [ s \in Selectors \ {"cr"} |->
        CASE s = "pip"           -> "https://pypi.org/pypi/{package}/json"
          [] s = "npm"           -> "https://registry.npmjs.org/{package}"
          [] s = "go"            -> "https://proxy.golang.org/{module}/@latest"
          [] s = "gh_commit"     -> "{base}/repos/{repository}/commits"
          [] s = "gh_tag"        -> "{base}/repos/{repository}/tags"
          [] s = "gh_release"    -> "{base}/repos/{repository}/releases/latest"
          [] s = "gh_deployment" -> "{base}/repos/{repository}/deployments"
          [] s = "gl_commit"     -> "{base}/api/v4/projects/{id}/repository/commits"
          [] s = "gl_tag"        -> "{base}/api/v4/projects/{id}/repository/tags" ]

\* selectors whose provider reads one field of one JSON object
SingleValued == {"npm", "go", "gh_release"}

\* bodies an upstream may answer with status 200
Bodies(u) ==
    IF u = DockerUrl
    THEN {Malformed, Body(<<E("v1")>>), Body(<<E("v1"), E("v2")>>)}
    ELSE IF u = GlProjectUrl
    THEN {Malformed, Body(<<E("7")>>)}
    ELSE IF u = UrlOf["pip"]
    THEN {Malformed, Body(<<>>),
          Body(<<Entry("v1", FALSE, FALSE, <<File(FALSE, 1)>>),
                 Entry("v2", FALSE, FALSE, <<File(FALSE, 2)>>)>>),
          Body(<<Entry("v2", FALSE, FALSE, <<File(TRUE, 2)>>),
                 Entry("v1", FALSE, FALSE, <<File(FALSE, 1)>>),
                 Entry("v3", FALSE, FALSE, <<>>)>>)}
    ELSE IF \E s \in SingleValued : u = UrlOf[s]
    THEN {Malformed, Body(<<E("v1")>>), Body(<<E("v2")>>)}
    ELSE {Malformed, Body(<<>>), Body(<<E("v2"), E("v1")>>)}

\* no response object: urlopen has not returned one
NoResponse == [status |-> 0, body |-> Malformed]

\* what one urllib.request.urlopen(url) may yield: an exception (URLError,
\* HTTPError for a status of 400 or more), a response of status 200, or a
\* response of another status that urllib hands back, such as 204
Responses(u) ==
    {NoResponse, [status |-> 204, body |-> Malformed]}
        \cup { [status |-> 200, body |-> b] : b \in Bodies(u) }

\* datetime.datetime.now(datetime.UTC)
Instants == {"2024-03-05T10:00:00Z", "2025-12-31T23:00:00Z"}

\* timestamp.strftime(format)
strftime(timestamp, format) ==
    IF timestamp = "2024-03-05T10:00:00Z"
    THEN CASE format = "%Y-%m-%dT%H" -> "2024-03-05T10"
           [] format = "%Y-%m-%d"    -> "2024-03-05"
           [] format = "%Y-W%V"      -> "2024-W10"
           [] format = "%Y-%m"       -> "2024-03"
           [] format = "%Y"          -> "2024"
    ELSE CASE format = "%Y-%m-%dT%H" -> "2025-12-31T23"
           [] format = "%Y-%m-%d"    -> "2025-12-31"
           [] format = "%Y-W%V"      -> "2025-W01"
           [] format = "%Y-%m"       -> "2025-12"
           [] format = "%Y"          -> "2025"

-----------------------------------------------------------------------------
(* One run of main() *)

ListIdle ==
    /\ payload = <<>>
    /\ fn = ""
    /\ out = Returned(<<>>)
    /\ latest = [err |-> "", id |-> ""]

Init ==
    /\ \E G \in Subsets(Sources, MaxGiven) :
         \E pick \in Picks(G) :
           /\ cli = [ s \in Selectors |->
                        IF <<"cli", s>> \in G THEN pick[<<"cli", s>>] ELSE None ]
           /\ env = [ s \in Selectors |->
                        IF <<"env", s>> \in G THEN pick[<<"env", s>>] ELSE None ]
    /\ docker_tag \in {None, "", "owner/image"}
    /\ args = [ s \in Selectors |-> None ]
    /\ pc = "parse_args"
    /\ invoked = ""
    /\ url = ""
    /\ retries = _RETRIES
    /\ response = NoResponse
    /\ trace = <<>>
    /\ stderr = <<>>
    /\ tags = <<>>
    /\ tag = ""
    /\ stdout = <<>>
    /\ err = ""
    /\ ListIdle

\* an uncaught exception ends the process
raise(exc) ==
    /\ pc' = "raised"
    /\ err' = exc

\* the first frame of _urlopen(url): __retries takes its default
call_urlopen(u) ==
    /\ pc' = "urlopen"
    /\ url' = u
    /\ retries' = _RETRIES
    /\ response' = NoResponse

\* One entry of the history.  request: attempt n was sent and the upstream
\* answered with body (Malformed when no status-200 body came); sleep: n time
\* units; return: _urlopen returned the response of attempt n; raise: the
\* exception of attempt n left _urlopen.
Event(ev, u, n, body) == [ev |-> ev, url |-> u, n |-> n, body |-> body]

\* the arguments the command line names
Given == { s \in Selectors : cli[s] # None }

\* parser.error(): the positional docker_tag is missing (its default is
\* never used, the argument is required), two arguments of the mutually
\* exclusive group are on the command line, or a --cr value is outside
\* choices.  A default is not checked against choices.
usage_error ==
    \/ docker_tag = None
    \/ Cardinality(Given) >= 2
    \/ cli["cr"] # None /\ cli["cr"] \notin DOMAIN _CR_COICES

parse_args_exit ==
    /\ pc = "parse_args"
    /\ usage_error
    /\ raise("SystemExit")
    /\ UNCHANGED <<cli, env, docker_tag, args, invoked, url, retries, response,
                   trace, stderr, tags, tag, stdout>>
    /\ UNCHANGED listVars

parse_args ==
    /\ pc = "parse_args"
    /\ ~usage_error
    /\ args' = [ s \in Selectors |-> IF cli[s] # None THEN cli[s] ELSE env[s] ]
    /\ pc' = "get_docker_tags"
    /\ UNCHANGED <<cli, env, docker_tag, invoked, url, retries, response,
                   trace, stderr, tags, tag, stdout, err>>
    /\ UNCHANGED listVars

\* the test for the empty repository left out
fetches_always(repository) == TRUE

\* get_docker_tags: `if repository == "": return []` is the negation
fetches_tags(repository) == repository # ""

get_docker_tags ==
    /\ pc = "get_docker_tags"
    /\ IF fetches_tags(docker_tag)
       THEN /\ call_urlopen(DockerUrl)
            /\ UNCHANGED tags
       ELSE /\ tags' = <<>>
            /\ pc' = "select"
            /\ UNCHANGED <<url, retries, response>>
    /\ UNCHANGED <<cli, env, docker_tag, args, invoked, trace, stderr, tag,
                   stdout, err>>
    /\ UNCHANGED listVars

\* the assert left out: any response urlopen hands back is returned
status_unchecked(r) == r.status # 0

\* `assert 200 == response.status` passes on a response urlopen returned
status_ok(r) == r.status = 200

\* a doubling backoff in place of the linear one
backoff_doubling(__retries) == 30 * 2 ^ (_RETRIES - __retries)

\* the sleep of the except clause
backoff(__retries) == 30 * (_RETRIES - __retries + 1)

\* the try block of one frame of _urlopen, with the print of the first frame
urlopen ==
    /\ pc = "urlopen"
    /\ \E r \in Responses(url) :
         LET attempt == _RETRIES - retries + 1
             asked == Append(trace, Event("request", url, attempt, r.body))
         IN  /\ response' = r
             /\ IF status_ok(r)
                THEN /\ trace' = Append(asked, Event("return", url, attempt, Malformed))
                     /\ pc' = "read"
                ELSE /\ trace' = asked
                     /\ pc' = "except"
    /\ stderr' = IF retries = _RETRIES
                 THEN Append(stderr, [what |-> "url", url |-> url, sleep |-> 0])
                 ELSE stderr
    /\ UNCHANGED <<cli, env, docker_tag, args, invoked, url, retries, tags, tag,
                   stdout, err>>
    /\ UNCHANGED listVars

\* except Exception, __retries nonzero: sleep, then the next frame
except_retry ==
    /\ pc = "except"
    /\ retries # 0
    /\ LET sleep == backoff(retries)
       IN  /\ stderr' = Append(stderr, [what |-> "sleep", url |-> url, sleep |-> sleep])
           /\ trace' = Append(trace, Event("sleep", url, sleep, Malformed))
    /\ retries' = retries - 1
    /\ pc' = "urlopen"
    /\ UNCHANGED <<cli, env, docker_tag, args, invoked, url, response, tags, tag,
                   stdout, err>>
    /\ UNCHANGED listVars

\* except Exception, __retries zero: raise, through every frame and main
except_raise ==
    /\ pc = "except"
    /\ retries = 0
    /\ trace' = Append(trace, Event("raise", url, _RETRIES - retries + 1, Malformed))
    /\ raise("FetchError")
    /\ UNCHANGED <<cli, env, docker_tag, args, invoked, url, retries, response,
                   stderr, tags, tag, stdout>>
    /\ UNCHANGED listVars

\* the read of the body taken to be inside the try block of _urlopen
malformed_retried ==
    /\ pc' = "except"
    /\ err' = err
    /\ UNCHANGED <<url, retries, response, trace, stderr>>

\* json.loads(response.read()) or a subscript raises: nothing catches it
malformed ==
    /\ raise("UpstreamError")
    /\ UNCHANGED <<url, retries, response, trace, stderr>>

\* get_docker_tags after _urlopen returned
read_docker_tags ==
    /\ pc = "read"
    /\ url = DockerUrl
    /\ IF response.body.wellformed
       THEN /\ tags' = Ids(response.body.entries)
            /\ pc' = "select"
            /\ response' = NoResponse
            /\ UNCHANGED <<url, retries, trace, stderr, err>>
       ELSE /\ malformed
            /\ UNCHANGED tags
    /\ UNCHANGED <<cli, env, docker_tag, args, invoked, tag, stdout>>
    /\ UNCHANGED listVars

\* the branch of main's if/elif chain that is taken, "" for the else
Selected ==
    LET truthy == { i \in 1..Len(Chain) : Truthy(args[Chain[i]]) }
    IN  IF truthy = {} THEN ""
        ELSE Chain[CHOOSE i \in truthy : \A j \in truthy : i <= j]

\* else: raise NotImplementedError
main_else ==
    /\ pc = "select"
    /\ Selected = ""
    /\ raise("NotImplementedError")
    /\ UNCHANGED <<cli, env, docker_tag, args, invoked, url, retries, response,
                   trace, stderr, tags, tag, stdout>>
    /\ UNCHANGED listVars

\* elif args.cr: tag = get_cron_tag(args.cr)
main_cr ==
    /\ pc = "select"
    /\ Selected = "cr"
    /\ invoked' = "cr"
    /\ IF args["cr"] \in DOMAIN _CR_COICES
       THEN /\ \E timestamp \in Instants :
                 tag' = strftime(timestamp, _CR_COICES[args["cr"]])
            /\ pc' = "compare"
            /\ UNCHANGED err
       ELSE /\ raise("KeyError")
            /\ UNCHANGED tag
    /\ UNCHANGED <<cli, env, docker_tag, args, url, retries, response, trace,
                   stderr, tags, stdout>>
    /\ UNCHANGED listVars

\* elif args.gl_commit / args.gl_tag: get_gl_commits and get_gl_tags first
\* evaluate _get_gl_repository, which fetches unless the reference is digits
main_gl ==
    /\ pc = "select"
    /\ Selected \in {"gl_commit", "gl_tag"}
    /\ invoked' = Selected
    /\ call_urlopen(IF isdigit(args[Selected]) THEN UrlOf[Selected] ELSE GlProjectUrl)
    /\ UNCHANGED <<cli, env, docker_tag, args, trace, stderr, tags, tag, stdout, err>>
    /\ UNCHANGED listVars

\* the branches of pip, npm, go and the four git-hosting providers
main_provider ==
    /\ pc = "select"
    /\ Selected \in Selectors \ {"gl_commit", "gl_tag", "cr"}
    /\ invoked' = Selected
    /\ call_urlopen(UrlOf[Selected])
    /\ UNCHANGED <<cli, env, docker_tag, args, trace, stderr, tags, tag, stdout, err>>
    /\ UNCHANGED listVars

\* _get_gl_repository after _urlopen returned: the id goes into the next URL
read_gl_project ==
    /\ pc = "read"
    /\ url = GlProjectUrl
    /\ IF response.body.wellformed
       THEN /\ call_urlopen(UrlOf[invoked])
            /\ UNCHANGED <<trace, stderr, err>>
       ELSE malformed
    /\ UNCHANGED <<cli, env, docker_tag, args, invoked, tags, tag, stdout>>
    /\ UNCHANGED listVars

\* what the provider wired to selector s makes of well-formed JSON
latest_of(s, results) ==
    CASE s = "pip"           -> Last(get_pip_versions_2(results))
      [] s = "gh_commit"     -> Last(get_gh_commits(results))
      [] s = "gh_tag"        -> Last(get_gh_tags(results))
      [] s = "gh_deployment" -> Last(get_gh_deployments(results))
      [] s = "gl_commit"     -> Last(get_gl_commits(results))
      [] s = "gl_tag"        -> Last(get_gl_tags(results))
      [] s \in SingleValued  -> [err |-> "", id |-> results[1].id]

\* the provider after _urlopen returned
read_provider ==
    /\ pc = "read"
    /\ url \notin {DockerUrl, GlProjectUrl}
    /\ IF response.body.wellformed
       THEN LET got == latest_of(invoked, response.body.entries)
            IN  IF got.err = ""
                THEN /\ tag' = got.id
                     /\ pc' = "compare"
                     /\ response' = NoResponse
                     /\ UNCHANGED <<url, retries, trace, stderr, err>>
                ELSE /\ raise(got.err)
                     /\ UNCHANGED <<url, retries, response, trace, stderr, tag>>
       ELSE /\ malformed
            /\ UNCHANGED tag
    /\ UNCHANGED <<cli, env, docker_tag, args, invoked, tags, stdout>>
    /\ UNCHANGED listVars

\* the membership test left out: whatever was resolved is printed
is_anything(t, published) == TRUE

\* `tag not in tags`
is_novel(t, published) == \A i \in 1..Len(published) : published[i] # t

\* if tag not in tags: print(f"tag={tag}")
main_print ==
    /\ pc = "compare"
    /\ stdout' = IF is_novel(tag, tags) THEN Append(stdout, <<"tag=", tag>>) ELSE stdout
    /\ pc' = "exit"
    /\ UNCHANGED <<cli, env, docker_tag, args, invoked, url, retries, response,
                   trace, stderr, tags, tag, err>>
    /\ UNCHANGED listVars

Next ==
    \/ parse_args_exit
    \/ parse_args
    \/ get_docker_tags
    \/ urlopen
    \/ except_retry
    \/ except_raise
    \/ read_docker_tags
    \/ main_else
    \/ main_cr
    \/ main_gl
    \/ main_provider
    \/ read_gl_project
    \/ read_provider
    \/ main_print

Spec == Init /\ [][Next]_vars

\* The process is single-threaded and nothing suspends it: blocking calls
\* return (urlopen answers or raises, sleep ends), so a step that can be
\* taken is taken.
FairSpec == Spec /\ WF_vars(Next)

-----------------------------------------------------------------------------
(* The list providers on every upstream payload within the bounds *)

VersionIds == {"v1", "v2", "v3"}

\* upload timestamps, numbered in time order
Times == {1, 2}

\* entries of the commits, tags, releases and deployments listings
GhEntries ==
    { Entry(id, draft, prerelease, <<>>) :
        id \in VersionIds, draft \in BOOLEAN, prerelease \in BOOLEAN }

GhPayloads == UNION { [1..n -> GhEntries] : n \in 0..MaxEntries }

Files == { File(yanked, time) : yanked \in BOOLEAN, time \in Times }

\* the sum of the first k of the per-release file counts
RECURSIVE Total(_, _)
Total(counts, k) == IF k = 0 THEN 0 ELSE counts[k] + Total(counts, k - 1)

\* "releases" of the package index is a JSON object: its keys are distinct,
\* and json.loads keeps them in the order of the document.  The payload with
\* keys ids, counts[i] files under the i-th key, and the files of all keys
\* one after the other in flat.
PipPayload(ids, counts, flat) ==
    [ i \in 1..Len(ids) |->
        Entry(ids[i], FALSE, FALSE,
              SubSeq(flat, Total(counts, i - 1) + 1, Total(counts, i))) ]

IsPipPayload(p) ==
    \E n \in 0..MaxEntries :
      \E ids \in [1..n -> VersionIds] :
        /\ \A i, j \in 1..n : ids[i] = ids[j] => i = j
        /\ \E counts \in [1..n -> 0..MaxFiles] :
             /\ Total(counts, n) <= MaxFiles
             /\ \E flat \in [1..Total(counts, n) -> Files] :
                  p = PipPayload(ids, counts, flat)

RunIdle ==
    /\ cli = [ s \in Selectors |-> None ]
    /\ env = [ s \in Selectors |-> None ]
    /\ docker_tag = ""
    /\ args = [ s \in Selectors |-> None ]
    /\ pc = "list"
    /\ invoked = ""
    /\ url = ""
    /\ retries = _RETRIES
    /\ response = NoResponse
    /\ trace = <<>>
    /\ stderr = <<>>
    /\ tags = <<>>
    /\ tag = ""
    /\ stdout = <<>>
    /\ err = ""

InitList ==
    /\ RunIdle
    /\ \/ payload \in GhPayloads
       \/ IsPipPayload(payload)
    /\ fn = ""
    /\ out = Returned(<<>>)
    /\ latest = [err |-> "", id |-> ""]

\* one provider applied to the payload, and list[-1] of what it returns
Apply(name, result) ==
    /\ pc = "list"
    /\ fn = ""
    /\ fn' = name
    /\ out' = result
    /\ latest' = Last(result)
    /\ UNCHANGED payload
    /\ UNCHANGED runVars

list_gh_commits == Apply("get_gh_commits", get_gh_commits(payload))

list_gh_tags == Apply("get_gh_tags", get_gh_tags(payload))

list_gh_releases_1 == Apply("get_gh_releases_1", get_gh_releases_1(payload))

list_gh_deployments == Apply("get_gh_deployments", get_gh_deployments(payload))

list_pip_versions_2 == Apply("get_pip_versions_2", get_pip_versions_2(payload))

NextList ==
    \/ list_gh_commits
    \/ list_gh_tags
    \/ list_gh_releases_1
    \/ list_gh_deployments
    \/ list_pip_versions_2

SpecList == InitList /\ [][NextList]_vars

-----------------------------------------------------------------------------
(* Reading the history *)

\* positions of the events of kind ev about URL u among the first k
Positions(ev, u, k) == { i \in 1..k : trace[i].ev = ev /\ trace[i].url = u }

\* request attempts made for u among the first k events
Attempts(u, k) == Cardinality(Positions("request", u, k))

\* the durations slept for u, in order
RECURSIVE SleepsUpTo(_, _)
SleepsUpTo(u, k) ==
    IF k = 0 THEN <<>>
    ELSE IF trace[k].ev = "sleep" /\ trace[k].url = u
    THEN Append(SleepsUpTo(u, k - 1), trace[k].n)
    ELSE SleepsUpTo(u, k - 1)

Sleeps(u) == SleepsUpTo(u, Len(trace))

LastEvent == trace[Len(trace)]

\* a fetch of `url` is under way
Fetching == pc \in {"urlopen", "except"}

-----------------------------------------------------------------------------
(* The resilient fetcher *)

\* C1: every sleep of a fetch lasts 30 times the number of attempts that have
\* failed so far for that URL; and a fetch that returns after exactly three
\* attempts returns the response of the third attempt, the body the upstream
\* sent on that attempt, having slept 30 and then 60 and nothing else.
C1_RetryLaw ==
    /\ \A i \in 1..Len(trace) :
         trace[i].ev = "sleep" => trace[i].n = 30 * Attempts(trace[i].url, i)
    /\ \A i \in 1..Len(trace) :
         (trace[i].ev = "return" /\ Attempts(trace[i].url, i) = 3) =>
            /\ trace[i].n = 3
            /\ SleepsUpTo(trace[i].url, i) = <<30, 60>>
    /\ (pc = "read" /\ Attempts(url, Len(trace)) = 3) =>
            /\ LastEvent = Event("return", url, 3, Malformed)
            /\ trace[Len(trace) - 1] = Event("request", url, 3, response.body)
            /\ response.status = 200

\* a fetch has returned on its third attempt
C1_Witness ==
    /\ pc = "read"
    /\ Attempts(url, Len(trace)) = 3
    /\ Sleeps(url) = <<30, 60>>

\* The safety part of C2: no URL is requested more than 4 times; a fetch whose 4 attempts all
\* failed ends the run with the failure of the fourth attempt, without a
\* return and without a sleep after that attempt; and a fetch under way has
\* made 3 - __retries attempts (one more once the current one has failed)
\* and can take its next step, so it ends by a return or by that failure.
C2_BoundedRetries ==
    /\ \A i \in 1..Len(trace) : Attempts(trace[i].url, Len(trace)) <= 4
    /\ (pc = "raised" /\ err = "FetchError") =>
            /\ Attempts(url, Len(trace)) = 4
            /\ LastEvent = Event("raise", url, 4, Malformed)
            /\ trace[Len(trace) - 1].ev = "request"
            /\ Sleeps(url) = <<30, 60, 90>>
            /\ Positions("return", url, Len(trace)) = {}
            /\ stdout = <<>>
    /\ Fetching =>
            /\ retries \in 0..3
            /\ Attempts(url, Len(trace)) = 3 - retries + (IF pc = "except" THEN 1 ELSE 0)
            /\ Positions("return", url, Len(trace)) = {}
            /\ ENABLED (urlopen \/ except_retry \/ except_raise)

\* C2: the safety part above holds throughout, and, every step that can be
\* taken being taken in the end, a fetch under way ends: by the return of a
\* response or by the failure that ends the run.
C2_FetchEnds ==
    /\ []C2_BoundedRetries
    /\ [](Fetching => <>(pc \in {"read", "raised"}))

\* a fetch has failed for good
C2_Witness ==
    /\ pc = "raised"
    /\ err = "FetchError"
    /\ Attempts(url, Len(trace)) = 4

\* what follows a failed attempt, whatever made it fail: the handler is
\* about to run, or has slept 30 times the attempts made and is about to
\* retry, or, after the fourth attempt, has re-raised
FailureHandled ==
    \/ pc = "except" /\ LastEvent.ev = "request" /\ LastEvent.url = url
    \/ /\ pc = "urlopen"
       /\ Attempts(url, Len(trace)) <= 3
       /\ LastEvent = Event("sleep", url, 30 * Attempts(url, Len(trace)), Malformed)
    \/ /\ pc = "raised"
       /\ err = "FetchError"
       /\ Attempts(url, Len(trace)) = 4
       /\ LastEvent.ev = "raise"

\* C3: _urlopen returns only responses of status 200; an attempt answered
\* with another status is followed by what follows an attempt that raised:
\* the backoff sleep and a retry while retries remain, the failure of the
\* fetch otherwise.
C3_Only200Returned ==
    /\ pc = "read" => response.status = 200
    /\ \A i \in 1..Len(trace) :
         trace[i].ev = "return" => trace[i - 1].body \in Bodies(trace[i].url)
    /\ response.status = 204 => FailureHandled
    /\ (response.status = 0 /\ Attempts(url, Len(trace)) > 0
            /\ (Fetching \/ err = "FetchError")) => FailureHandled

\* an attempt was answered with status 204, and the fetch slept and retries
C3_Witness ==
    /\ response.status = 204
    /\ pc = "urlopen"
    /\ LastEvent.ev = "sleep"

-----------------------------------------------------------------------------
(* The selector and the novelty check *)

\* the published tags as a set
TagSet == { tags[i] : i \in 1..Len(tags) }

\* C4: a run that reaches its end has printed exactly the line tag=<tag>
\* when the resolved tag is not among the published tags, and nothing when
\* it is; a run that has not reached its end, or that ended by an exception,
\* has printed nothing.
C4_NoveltyDecision ==
    /\ pc = "exit" =>
         stdout = (IF tag \in TagSet THEN <<>> ELSE << <<"tag=", tag>> >>)
    /\ pc # "exit" => stdout = <<>>

\* a run printed a tag that is novel against a non-empty set of published tags
C4_Witness ==
    /\ pc = "exit"
    /\ tags # <<>>
    /\ tag \notin TagSet
    /\ stdout = << <<"tag=", tag>> >>

\* the exceptions of a wrong invocation: the usage error of argparse, the
\* else branch of main, the unknown key of _CR_COICES
ConfigurationErrors == {"SystemExit", "NotImplementedError", "KeyError"}

\* C5: when a run ends in a configuration error, no HTTP request has been
\* issued, whatever the artifact repository.
C5_ConfigBeforeNetwork ==
    (pc = "raised" /\ err \in ConfigurationErrors) =>
        \A i \in 1..Len(trace) : trace[i].ev # "request"

\* the value a selector ends up with: the command line's, else the
\* environment's
Effective(s) == IF cli[s] # None THEN cli[s] ELSE env[s]

\* the active selectors: those whose value is non-empty
Active == { s \in Selectors : Truthy(Effective(s)) }

\* C6: a run with no active selector, or with two or more, invokes no
\* provider, prints nothing, and when it ends it ends in a configuration
\* error.
C6_ExactlyOneSelector ==
    Cardinality(Active) # 1 =>
        /\ invoked = ""
        /\ stdout = <<>>
        /\ pc # "exit"
        /\ pc = "raised" => err \in ConfigurationErrors

\* the exceptions of a response that was received and cannot be used
UpstreamErrors == {"UpstreamError", "IndexError"}

\* C9: after _urlopen has returned a response for a URL, nothing more
\* happens for that URL, no request and no sleep; and a run that ends on a
\* body it cannot use ends right after that return, with nothing printed.
C9_ParseFailureNotRetried ==
    /\ \A i \in 1..Len(trace) :
         trace[i].ev = "return" =>
            \A j \in (i + 1)..Len(trace) : trace[j].url # trace[i].url
    /\ (pc = "raised" /\ err \in UpstreamErrors) =>
            /\ LastEvent = Event("return", url, Attempts(url, Len(trace)), Malformed)
            /\ stdout = <<>>

\* a run ended on a malformed body that came on a retried attempt
C9_Witness ==
    /\ pc = "raised"
    /\ err = "UpstreamError"
    /\ ~response.body.wellformed
    /\ Attempts(url, Len(trace)) >= 2

\* C10: with the empty artifact repository, get_docker_tags returns the empty
\* list, does not fail, and neither requests the tag listing nor sleeps for
\* it; the run then prints every tag it resolves.
C10_EmptyRepository ==
    docker_tag = "" =>
        /\ tags = <<>>
        /\ url # DockerUrl
        /\ \A i \in 1..Len(trace) : trace[i].url # DockerUrl
        /\ \A i \in 1..Len(stderr) : stderr[i].url # DockerUrl
        /\ (pc \notin {"parse_args", "get_docker_tags"} /\ invoked = "") =>
                (pc = "select" \/ err \in {"SystemExit", "NotImplementedError"})
        /\ pc = "exit" => stdout = << <<"tag=", tag>> >>

\* a run with the empty artifact repository printed the tag it resolved
C10_Witness ==
    /\ docker_tag = ""
    /\ pc = "exit"
    /\ tags = <<>>
    /\ stdout = << <<"tag=", tag>> >>

-----------------------------------------------------------------------------
(* The list providers *)

GhListProviders ==
    {"get_gh_commits", "get_gh_tags", "get_gh_releases_1", "get_gh_deployments"}

\* the positions of the payload a git-hosting provider lists: all of them,
\* but for get_gh_releases_1 those that are neither draft nor prerelease
Listed ==
    { i \in 1..Len(payload) :
        fn = "get_gh_releases_1" => (~payload[i].draft /\ ~payload[i].prerelease) }

\* C7 as stated: every git-hosting list provider returns the identifiers of
\* all upstream entries in reverse order, and the last element of its list is
\* the identifier of the first upstream entry.
C7_ExactReverse ==
    (fn \in GhListProviders /\ payload # <<>>) =>
        /\ out.err = ""
        /\ Len(out.list) = Len(payload)
        /\ \A i \in 1..Len(payload) : out.list[i] = payload[Len(payload) - i + 1].id
        /\ latest = [err |-> "", id |-> payload[1].id]

\* C7 amended: a git-hosting list provider returns the identifiers of the
\* entries it lists, the later in the upstream response the earlier in its
\* list; get_gh_commits, get_gh_tags and get_gh_deployments list every entry,
\* get_gh_releases_1 the entries that are neither draft nor prerelease.  The
\* last element of the list is the identifier of the first listed entry, and
\* taking it raises IndexError when no entry is listed.
C7_ReverseOfListed ==
    fn \in GhListProviders =>
        /\ out.err = ""
        /\ Len(out.list) = Cardinality(Listed)
        /\ \A i \in Listed :
             out.list[Cardinality({ j \in Listed : j >= i })] = payload[i].id
        /\ \A i \in Listed :
             (\A j \in Listed : i <= j) => latest = [err |-> "", id |-> payload[i].id]
        /\ Listed = {} => latest.err = "IndexError"
        /\ fn # "get_gh_releases_1" => Listed = 1..Len(payload)

\* get_gh_releases_1 skipped a draft at the head of the response and listed
\* the two releases behind it, the newer one last
C7_Witness ==
    /\ fn = "get_gh_releases_1"
    /\ Len(payload) = 3
    /\ payload[1].draft
    /\ Listed = {2, 3}
    /\ payload[2].id # payload[3].id
    /\ out.list = <<payload[3].id, payload[2].id>>
    /\ latest.id = payload[2].id

\* the identifiers the package-index provider returned
Versions == { out.list[i] : i \in 1..Len(out.list) }

\* the position in the payload of the release an identifier names
PositionOf(id) == CHOOSE i \in 1..Len(payload) : payload[i].id = id

\* C8 as stated: for every shape of the per-release file lists, no release
\* that carries a yanked mark appears in the list get_pip_versions_2 returns.
C8_NoYankedListed ==
    fn = "get_pip_versions_2" =>
        \A i \in 1..Len(payload) :
            (\E k \in 1..Len(payload[i].files) : payload[i].files[k].yanked)
                => payload[i].id \notin Versions

\* C8 amended: get_pip_versions_2 raises nothing on any shape of the file
\* lists, because it filters before the sort reads a first file; it returns
\* exactly the releases that have a file and whose first file is not yanked,
\* so no release whose first file is yanked, none whose files are all
\* yanked, and none without files; and the list is in ascending order of the
\* first file's upload time.
C8_FirstFileDecides ==
    fn = "get_pip_versions_2" =>
        /\ out.err = ""
        /\ \A i \in 1..Len(payload) :
             payload[i].id \in Versions <=>
                (Len(payload[i].files) >= 1 /\ ~payload[i].files[1].yanked)
        /\ \A i \in 1..Len(payload) :
             (payload[i].files # <<>>
                /\ \A k \in 1..Len(payload[i].files) : payload[i].files[k].yanked)
                => payload[i].id \notin Versions
        /\ Len(out.list) = Cardinality(Versions)
        /\ \A a, b \in 1..Len(out.list) :
             a < b => payload[PositionOf(out.list[a])].files[1].upload_time
                        <= payload[PositionOf(out.list[b])].files[1].upload_time

\* a release whose first file is yanked was left out, ahead of a release
\* that was kept although its second file is yanked
C8_Witness ==
    /\ fn = "get_pip_versions_2"
    /\ Len(payload) = 2
    /\ payload[1].files = <<File(TRUE, 1)>>
    /\ payload[2].files = <<File(FALSE, 2), File(TRUE, 2)>>
    /\ out = Returned(<<payload[2].id>>)

====
